---- MODULE Spec2Model ----
(***************************************************************************)
(* Model of the EETimes scraper: the Link Collector                        *)
(* (eetimes_articles.py) and the Content Extractor                         *)
(* (eetimes_articles_processing.py).                                       *)
(*                                                                         *)
(* Strings are sequences of one-character strings, so that strip(),        *)
(* split(), join(), startswith() and concatenation are computed as the     *)
(* code computes them.  A Python None is carried by a separate has-flag.   *)
(***************************************************************************)
EXTENDS Integers, Sequences, FiniteSets, TLC

(***************************************************************************)
(* Bounds of the model and constants of the program.                       *)
(***************************************************************************)
\* Largest number of rows of the input CSV of the Extractor.
MaxUrls == 52
\* Number of distinct URL names the rows of the input CSV are drawn from.
NumUrlNames == 2
\* Last listing page of the Collector's range (1824 in the code).
LastPage == 52
\* Largest number of listing pages of one run that return links.
MaxHits == 2
\* Largest number of paragraphs in an article body.
MaxParas == 2
\* Extractor: the checkpoint period, `i % 50`.
SaveEvery == 50
\* Collector: the batch period, `page % 50`.
BatchSize == 50
\* Collector: the session restart period, `(page - 1) % 50`.
RestartEvery == 50
\* Collector: `page_num-49` in the name of a batch file.
NameSpan == 49
\* Collector: `len(text) > 10`.
MinTextLen == 10

(***************************************************************************)
(* String helpers (Python str methods).                                    *)
(***************************************************************************)
IsSpace(c) == c \in {" ", "\n", "\t"}

RECURSIVE LStrip(_)
LStrip(s) == IF s # <<>> /\ IsSpace(Head(s)) THEN LStrip(Tail(s)) ELSE s

RECURSIVE RStrip(_)
RStrip(s) ==
    IF s # <<>> /\ IsSpace(s[Len(s)]) THEN RStrip(SubSeq(s, 1, Len(s) - 1)) ELSE s

\* str.strip()
Strip(s) == RStrip(LStrip(s))

\* str.split() without argument: the maximal runs of non-whitespace.
RECURSIVE SplitWs(_, _, _)
SplitWs(s, cur, acc) ==
    IF s = <<>>
    THEN IF cur = <<>> THEN acc ELSE Append(acc, cur)
    ELSE IF IsSpace(Head(s))
         THEN SplitWs(Tail(s), <<>>, IF cur = <<>> THEN acc ELSE Append(acc, cur))
         ELSE SplitWs(Tail(s), Append(cur, Head(s)), acc)

Split(s) == SplitWs(s, <<>>, <<>>)

\* ' '.join(parts)
RECURSIVE JoinSp(_)
JoinSp(parts) ==
    IF parts = <<>> THEN <<>>
    ELSE IF Len(parts) = 1 THEN parts[1]
    ELSE parts[1] \o <<" ">> \o JoinSp(Tail(parts))

\* pandas drop_duplicates: the first occurrence of each value, in order.
RECURSIVE DropDuplicates(_)
DropDuplicates(s) ==
    IF s = <<>> THEN <<>>
    ELSE LET init == DropDuplicates(SubSeq(s, 1, Len(s) - 1))
             last == s[Len(s)]
         IN IF \E i \in 1..Len(init) : init[i] = last THEN init ELSE Append(init, last)

Range(s) == {s[i] : i \in 1..Len(s)}

RECURSIVE SelectSeqNonEmpty(_)
SelectSeqNonEmpty(s) ==
    IF s = <<>> THEN <<>>
    ELSE IF Head(s) = <<>> THEN SelectSeqNonEmpty(Tail(s))
         ELSE <<Head(s)>> \o SelectSeqNonEmpty(Tail(s))

(***************************************************************************)
(* Content Extractor: what one HTTP GET of an article URL can bring back.  *)
(* fetch is "ok" (a 2xx answer whose body is the DOM described by the      *)
(* other fields), "network_error" (requests.get raises) or "http_error"    *)
(* (raise_for_status raises).  An absent element has its has-flag FALSE    *)
(* and its text empty.                                                     *)
(***************************************************************************)
TitleTexts == { <<"T">>, <<" ", "T", "\n">> }
AuthorLinkTexts == { <<"A">>, <<" ", "A">> }
AuthorBoxTexts == { <<" ", "B", "y", " ", "A", " ">>, <<>> }
DateTexts == { <<"D">>, <<"D", " ">> }
ParaTexts == { <<>>, <<" ">>, <<"p", " ", " ", "q">>, <<"r", "\n">> }

OptText(S) == {[has |-> FALSE, text |-> <<>>]} \cup {[has |-> TRUE, text |-> t] : t \in S}

ParaLists == UNION {[1..n -> ParaTexts] : n \in 0..MaxParas}

AuthorBoxes ==
    {[has |-> FALSE, text |-> <<>>, hasLink |-> FALSE, linkText |-> <<>>]}
    \cup {[has |-> TRUE, text |-> t, hasLink |-> FALSE, linkText |-> <<>>] :
              t \in AuthorBoxTexts}
    \cup {[has |-> TRUE, text |-> l, hasLink |-> TRUE, linkText |-> l] :
              l \in AuthorLinkTexts}

Bodies ==
    {[has |-> FALSE, paras |-> <<>>]} \cup {[has |-> TRUE, paras |-> ps] : ps \in ParaLists}

NoDom ==
    [h1 |-> [has |-> FALSE, text |-> <<>>], titleEl |-> [has |-> FALSE, text |-> <<>>],
     authorBox |-> [has |-> FALSE, text |-> <<>>, hasLink |-> FALSE, linkText |-> <<>>],
     date |-> [has |-> FALSE, text |-> <<>>], body |-> [has |-> FALSE, paras |-> <<>>]]

OkPages ==
    {[fetch |-> "ok", h1 |-> h, titleEl |-> t, authorBox |-> a, date |-> d, body |-> b] :
        h \in OptText(TitleTexts), t \in OptText(TitleTexts), a \in AuthorBoxes,
        d \in OptText(DateTexts), b \in Bodies}

FailedPages ==
    {[fetch |-> f, h1 |-> NoDom.h1, titleEl |-> NoDom.titleEl, authorBox |-> NoDom.authorBox,
      date |-> NoDom.date, body |-> NoDom.body] : f \in {"network_error", "http_error"}}

ArticlePages == OkPages \cup FailedPages

(***************************************************************************)
(* extract_article_info(url): the record built from the page the GET of    *)
(* url brought back.                                                       *)
(***************************************************************************)
ErrorSentinel == <<"E", "R", "R", "O", "R">>
UnknownAuthor == <<"Unknown Author">>
UnknownDate == <<"Unknown Date">>
NoContent == <<"No content found in articleBody">>

\* The except branch: the all-error record for exception e.
ErrorRecord(url, e) ==
    [title |-> ErrorSentinel,
     full_content |-> <<"Error extracting content: ">> \o <<e>>,
     publication_date |-> ErrorSentinel,
     author |-> ErrorSentinel,
     url |-> url,
     status |-> "error"]

\* soup.find('h1'), else soup.find('title').get_text() which raises on None.
TitleRaises(page) == ~page.h1.has /\ ~page.titleEl.has

ExtractTitle(page) ==
    IF page.h1.has THEN Strip(page.h1.text) ELSE Strip(page.titleEl.text)

ExtractAuthor(page) ==
    IF page.authorBox.has
    THEN IF page.authorBox.hasLink
         THEN Strip(page.authorBox.linkText)
         ELSE Strip(page.authorBox.text)
    ELSE UnknownAuthor

ExtractDate(page) ==
    IF page.date.has THEN Strip(page.date.text) ELSE UnknownDate

\* content_parts: the stripped non-empty paragraphs.
ContentParts(paras) == SelectSeqNonEmpty([i \in 1..Len(paras) |-> Strip(paras[i])])

ExtractContent(page) ==
    LET parts == IF page.body.has THEN ContentParts(page.body.paras) ELSE <<>>
        joined == IF parts # <<>> THEN JoinSp(parts) ELSE <<>>
    IN IF joined # <<>> THEN JoinSp(Split(joined)) ELSE NoContent

extract_article_info(url, page) ==
    IF page.fetch = "network_error" THEN ErrorRecord(url, "ConnectionError")
    ELSE IF page.fetch = "http_error" THEN ErrorRecord(url, "HTTPError")
    ELSE IF TitleRaises(page) THEN ErrorRecord(url, "AttributeError")
    ELSE [title |-> ExtractTitle(page),
          full_content |-> ExtractContent(page),
          publication_date |-> ExtractDate(page),
          author |-> ExtractAuthor(page),
          url |-> url,
          status |-> "success"]

(***************************************************************************)
(* State.                                                                  *)
(***************************************************************************)
VARIABLES
    prog,           \* which program runs: "csv", "single", "collector", "scrape"
    \* ---- Content Extractor (eetimes_articles_processing.py)
    epc,            \* control point of main / process_urls_from_csv
    csv,            \* the input CSV: [state, cells]; cell 0 is a missing value
    site,           \* environment: the page each URL name answers with
    urls,           \* urls, after dropna()
    i,              \* loop counter of enumerate(urls, 1): URLs processed
    results,        \* results
    outfile,        \* output file: [exists, header, rows]
    ret,            \* return value of process_urls_from_csv: "None" or "frame"
    frame,          \* rows of the DataFrame returned, <<>> before the return
    \* ---- Link Collector (eetimes_articles.py)
    cpc,            \* control point of main
    page,           \* loop variable page
    current_page,   \* global current_page
    all_results,    \* global all_results
    batch_results,  \* batch_results
    batch_num,      \* batch_num
    js_enabled,     \* js_enabled
    driver,         \* main's driver: a session id, 0 for None
    newdrv,         \* setup_driver's local driver, 0 when not in setup_driver
    sessions,       \* every session started: id -> [open, opts, born, loads]
    files,          \* files written: set of [name, rows]
    hits,           \* number of page scrapes that returned links so far
    exitkind,       \* how the run ended: "running", "normal", "fatal", "sigint"
    batch_pages,    \* history: the pages whose links are in batch_results
    scraped_pages,  \* history: the pages scraped by the loop, in order
    last_scrape,    \* history: "failed" or "loaded" right after a scrape, else "none"
    returned,       \* history: the URLs returned by the scrapes of the loop
    probed,         \* history: the URLs returned by the probe scrape
    \* ---- scrape_page_with_fallback called on its own
    listing,        \* the page load the call meets
    page_links      \* the list the call returned

evars == <<epc, csv, site, urls, i, results, outfile, ret, frame>>
cvars == <<cpc, page, current_page, all_results, batch_results, batch_num, js_enabled,
           driver, newdrv, sessions, files, hits, exitkind,
           batch_pages, scraped_pages, last_scrape, returned, probed,
           listing, page_links>>
gvars == <<batch_pages, scraped_pages, last_scrape, returned, probed>>
svars == <<listing, page_links>>
vars == <<prog, evars, cvars>>

(***************************************************************************)
(* Content Extractor: process_urls_from_csv and the single-URL mode.       *)
(***************************************************************************)
UrlNames == 1..NumUrlNames

\* column_order
ColumnOrder == <<"title", "full_content", "publication_date", "author", "url", "status">>

\* One row of results_df[column_order]: the record's values in column order.
ToRow(r) == [c \in 1..Len(ColumnOrder) |-> r[ColumnOrder[c]]]

ToRows(rs) == [k \in 1..Len(rs) |-> ToRow(rs[k])]

\* pd.DataFrame(columns=column_order).to_csv(output_file): the header alone.
HeaderOnly == [exists |-> TRUE, header |-> ColumnOrder, rows |-> <<>>]

NoFile == [exists |-> FALSE, header |-> <<>>, rows |-> <<>>]

\* results_df[column_order].to_csv(output_file): overwrites the file.
WriteCsv(rs) == [exists |-> TRUE, header |-> ColumnOrder, rows |-> ToRows(rs)]

\* pd.DataFrame(results): one row per record, the columns in the order of the
\* record's keys.
ToFrame(rs) ==
    [k \in 1..Len(rs) |->
        <<rs[k].title, rs[k].full_content, rs[k].publication_date, rs[k].author,
          rs[k].url, rs[k].status>>]

\* df[url_column].dropna().tolist()
RECURSIVE DropNa(_)
DropNa(cells) ==
    IF cells = <<>> THEN <<>>
    ELSE IF Head(cells) = 0 THEN DropNa(Tail(cells))
         ELSE <<Head(cells)>> \o DropNa(Tail(cells))

\* SaveDue with a slip: a save after every URL.
SaveDue_Always(k, n) == TRUE

\* SaveDue with a slip: only the save at the end.
SaveDue_OnlyAtEnd(k, n) == k = n

\* `if i % 50 == 0 or i == len(urls)`
SaveDue(k, n) == k % SaveEvery = 0 \/ k = n

\* Pages the sites of the CSV runs answer with.
PlainPage ==
    [fetch |-> "ok", h1 |-> [has |-> TRUE, text |-> <<"T">>],
     titleEl |-> [has |-> TRUE, text |-> <<"T">>],
     authorBox |-> [has |-> TRUE, text |-> <<"A">>, hasLink |-> TRUE, linkText |-> <<"A">>],
     date |-> [has |-> TRUE, text |-> <<"D">>],
     body |-> [has |-> TRUE, paras |-> << <<"p", " ", " ", "q">> >>]]

UntitledPage == [PlainPage EXCEPT !.h1 = NoDom.h1, !.titleEl = NoDom.titleEl]

LoopPages == {PlainPage, UntitledPage} \cup FailedPages

CsvCells(n, nan) ==
    [k \in 1..n |-> IF nan /\ k = 1 THEN 0 ELSE ((k - 1) % NumUrlNames) + 1]

CollectorIdle ==
    /\ cpc = "idle" /\ page = 0 /\ current_page = 1
    /\ all_results = <<>> /\ batch_results = <<>> /\ batch_num = 1
    /\ js_enabled = FALSE /\ driver = 0 /\ newdrv = 0
    /\ sessions = <<>> /\ files = {} /\ hits = 0 /\ exitkind = "running"
    /\ batch_pages = <<>> /\ scraped_pages = <<>> /\ last_scrape = "none" /\ returned = {}
    /\ probed = {}
    /\ listing = [outcome |-> "no_container", sel1 |-> <<>>, sel2 |-> <<>>]
    /\ page_links = <<>>

ExtractorIdle ==
    /\ epc = "idle" /\ csv = [state |-> "ok", cells |-> <<>>]
    /\ site = [u \in UrlNames |-> PlainPage]
    /\ urls = <<>> /\ i = 0 /\ results = <<>> /\ outfile = NoFile /\ ret = "unset"
    /\ frame = <<>>

InitCsv ==
    /\ prog = "csv"
    /\ epc = "read"
    /\ \E st \in {"ok", "unreadable", "nocolumn"}, n \in 0..MaxUrls, nan \in BOOLEAN :
           csv = [state |-> st, cells |-> IF st = "ok" THEN CsvCells(n, nan) ELSE <<>>]
    /\ site \in [UrlNames -> LoopPages]
    /\ urls = <<>> /\ i = 0 /\ results = <<>> /\ outfile = NoFile /\ ret = "unset"
    /\ frame = <<>>
    /\ CollectorIdle

InitSingle ==
    /\ prog = "single"
    /\ epc = "single"
    /\ csv = [state |-> "ok", cells |-> <<>>]
    /\ \E pg \in ArticlePages : site = [u \in UrlNames |-> pg]
    /\ urls = <<>> /\ i = 0 /\ results = <<>> /\ outfile = NoFile /\ ret = "unset"
    /\ frame = <<>>
    /\ CollectorIdle

\* Lines 119-132: the CSV cannot be read, or has no URL column: return None.
ReadCsvFails ==
    /\ prog = "csv" /\ epc = "read"
    /\ csv.state \in {"unreadable", "nocolumn"}
    /\ epc' = "returned"
    /\ ret' = "None"
    /\ UNCHANGED <<prog, csv, site, urls, i, results, outfile, frame, cvars>>

\* Lines 119-148: read the URLs, write the header-only file, results = [].
ReadCsv ==
    /\ prog = "csv" /\ epc = "read"
    /\ csv.state = "ok"
    /\ urls' = DropNa(csv.cells)
    /\ outfile' = HeaderOnly
    /\ results' = <<>>
    /\ epc' = "loop"
    /\ UNCHANGED <<prog, csv, site, i, ret, frame, cvars>>

\* ProcessUrl with a slip: the record of a failed URL is dropped.
ProcessUrl_DropsFailed ==
    /\ prog = "csv" /\ epc = "loop"
    /\ i < Len(urls)
    /\ i' = i + 1
    /\ LET r == extract_article_info(urls[i + 1], site[urls[i + 1]])
       IN results' = IF r.status = "error" THEN results ELSE Append(results, r)
    /\ epc' = "save"
    /\ UNCHANGED <<prog, csv, site, urls, outfile, ret, frame, cvars>>

\* Lines 150-154: the next URL is fetched and its record appended.
ProcessUrl ==
    /\ prog = "csv" /\ epc = "loop"
    /\ i < Len(urls)
    /\ i' = i + 1
    /\ results' = Append(results, extract_article_info(urls[i + 1], site[urls[i + 1]]))
    /\ epc' = "save"
    /\ UNCHANGED <<prog, csv, site, urls, outfile, ret, frame, cvars>>

\* Lines 156-166: the periodic save and the delay.
Checkpoint ==
    /\ prog = "csv" /\ epc = "save"
    /\ outfile' = IF SaveDue(i, Len(urls)) THEN WriteCsv(results) ELSE outfile
    /\ epc' = "loop"
    /\ UNCHANGED <<prog, csv, site, urls, i, results, ret, frame, cvars>>

\* Lines 176-185: the loop is over; return pd.DataFrame(results).
FinishCsv ==
    /\ prog = "csv" /\ epc = "loop"
    /\ i = Len(urls)
    /\ epc' = "returned"
    /\ ret' = "frame"
    /\ frame' = ToFrame(results)
    /\ UNCHANGED <<prog, csv, site, urls, i, results, outfile, cvars>>

\* InterruptCsv with a slip: the handler prints and re-raises.
InterruptCsv_Propagates ==
    /\ prog = "csv" /\ epc \in {"loop", "save"}
    /\ epc' = "interrupted"
    /\ ret' = "raised"
    /\ UNCHANGED <<prog, csv, site, urls, i, results, outfile, frame, cvars>>

\* Lines 168-174: KeyboardInterrupt in the try block, outside a file write:
\* during a fetch, between statements or in the delay.
InterruptCsv ==
    /\ prog = "csv" /\ epc \in {"loop", "save"}
    /\ epc' = "interrupted"
    /\ ret' = "frame"
    /\ frame' = ToFrame(results)
    /\ UNCHANGED <<prog, csv, site, urls, i, results, outfile, cvars>>

\* Lines 160, 168-174: KeyboardInterrupt inside to_csv: the file was truncated
\* when opened and holds what had been written: nothing, the header, or the
\* header and some of the rows.
InterruptWrite ==
    /\ prog = "csv" /\ epc = "save"
    /\ SaveDue(i, Len(urls))
    /\ \/ outfile' = [exists |-> TRUE, header |-> <<>>, rows |-> <<>>]
       \/ \E j \in {0, Len(results) - 1} :
              outfile' = [exists |-> TRUE, header |-> ColumnOrder,
                          rows |-> ToRows(SubSeq(results, 1, j))]
    /\ epc' = "interrupted"
    /\ ret' = "frame"
    /\ frame' = ToFrame(results)
    /\ UNCHANGED <<prog, csv, site, urls, i, results, cvars>>

\* main, lines 203-224: one URL is extracted and saved.
MainSingle ==
    /\ prog = "single" /\ epc = "single"
    /\ results' = <<extract_article_info(1, site[1])>>
    /\ outfile' = WriteCsv(results')
    /\ epc' = "returned"
    /\ UNCHANGED <<prog, csv, site, urls, i, ret, frame, cvars>>

NextCsv ==
    \/ ReadCsvFails
    \/ ReadCsv
    \/ ProcessUrl
    \/ Checkpoint
    \/ FinishCsv
    \/ InterruptCsv
    \/ InterruptWrite

NextSingle == MainSingle

SpecCsv == InitCsv /\ [][NextCsv]_vars

SpecSingle == InitSingle /\ [][NextSingle]_vars

(***************************************************************************)
(* Link Collector: what loading one listing page can bring back, and       *)
(* scrape_page_with_fallback.                                              *)
(*                                                                         *)
(* outcome: "get_timeout" (driver.get raises TimeoutException),            *)
(* "webdriver_error", "other_error" (another exception inside the try),    *)
(* "no_container" (both waits time out, line 97), "loaded" (the page       *)
(* source is parsed; sel1 and sel2 are the anchors the two selectors       *)
(* match, both empty when only the containers are present).                *)
(***************************************************************************)
Origin == "https://www.eetimes.com"

TextQ1 == <<"Q", "1">>
TextHeadline ==
    <<"N", "e", "w", " ", "R", "I", "S", "C", "-", "V", " ", "C", "h", "i", "p", " ",
      "A", "n", "n", "o", "u", "n", "c", "e", "d">>
\* Ten characters once stripped.
TextTen == <<" ", "C", "h", "i", "p", " ", "n", "e", "w", "s", "!", "\n">>

HrefSlashA == <<"/", "a">>
HrefAbsA == <<Origin, "/", "a">>
HrefRelB == <<"b">>

Anchor(hasHref, href, text) == [hasHref |-> hasHref, href |-> href, text |-> text]

\* LinkOf with a slip: `>=` for `>` in the length test.
LinkOf_AtLeastMin(a) ==
    LET text == Strip(a.text)
    IN IF a.hasHref /\ a.href # <<>> /\ text # <<>> /\ Len(text) >= MinTextLen
       THEN IF Head(a.href) = "/" THEN << <<Origin>> \o a.href >> ELSE << a.href >>
       ELSE <<>>

\* Lines 119-125 for one matched anchor: the URLs it adds to results.
LinkOf(a) ==
    LET text == Strip(a.text)
    IN IF a.hasHref /\ a.href # <<>> /\ text # <<>> /\ Len(text) > MinTextLen
       THEN IF Head(a.href) = "/" THEN << <<Origin>> \o a.href >> ELSE << a.href >>
       ELSE <<>>

\* Lines 114-125: the inner loop over the anchors one selector matched.
RECURSIVE LinksOf(_)
LinksOf(anchors) ==
    IF anchors = <<>> THEN <<>> ELSE LinkOf(Head(anchors)) \o LinksOf(Tail(anchors))

\* Lines 73-139: the list returned for a page load.
scrape_page_with_fallback(load) ==
    IF load.outcome = "loaded"
    THEN LinksOf(load.sel1) \o LinksOf(load.sel2)
    ELSE <<>>

FailedLoads ==
    {[outcome |-> o, sel1 |-> <<>>, sel2 |-> <<>>] :
        o \in {"get_timeout", "webdriver_error", "other_error", "no_container"}}

LoadedWith(A) ==
    LET lists == {<<>>} \cup {<<a>> : a \in A}
    IN {[outcome |-> "loaded", sel1 |-> l1, sel2 |-> l2] : l1 \in lists, l2 \in lists}

\* Anchors of the listing pages of the runs.
RunAnchors ==
    {Anchor(TRUE, HrefSlashA, TextHeadline), Anchor(TRUE, HrefAbsA, TextHeadline),
     Anchor(TRUE, HrefRelB, TextHeadline), Anchor(TRUE, HrefSlashA, TextQ1)}

RunLoads == FailedLoads \cup LoadedWith(RunAnchors)

\* Eleven characters once stripped.
TextEleven == <<"\t", "C", "h", "i", "p", " ", "n", "e", "w", "s", "!", "!">>
TextBlank == <<" ">>

\* Anchors of the page loads scrape_page_with_fallback is called on alone:
\* no href, an empty href, the three forms of href; five texts.
ScrapeAnchors ==
    {Anchor(FALSE, <<>>, t) : t \in {TextQ1, TextHeadline, TextTen, TextEleven, TextBlank}}
    \cup {Anchor(TRUE, h, t) :
              h \in {<<>>, HrefSlashA, HrefAbsA, HrefRelB},
              t \in {TextQ1, TextHeadline, TextTen, TextEleven, TextBlank}}

ScrapeLoads == FailedLoads \cup LoadedWith(ScrapeAnchors)

(***************************************************************************)
(* Link Collector: files, sessions, save_progress, signal_handler.         *)
(***************************************************************************)
FileName(kind, batch, first, last) ==
    [kind |-> kind, batch |-> batch, first |-> first, last |-> last]

\* df.to_csv(filename): creates or overwrites the file of that name.
WriteFile(fs, name, rows) == {f \in fs : f.name # name} \cup {[name |-> name, rows |-> rows]}

\* save_progress(results, page_num, batch_num); batch_num 0 stands for None.
save_progress(fs, res, page_num, bnum) ==
    IF res # <<>>
    THEN WriteFile(fs,
                   IF bnum # 0
                   THEN FileName("batch", bnum, page_num - NameSpan, page_num)
                   ELSE FileName("final", 0, 0, page_num),
                   DropDuplicates(res))
    ELSE fs

\* signal_handler with a slip: the rows are written without drop_duplicates.
signal_handler_NoDedup(fs, res, cur) ==
    IF res # <<>>
    THEN WriteFile(fs, FileName("interrupted", 0, 0, cur), res)
    ELSE fs

\* signal_handler, lines 23-28.
signal_handler(fs, res, cur) ==
    IF res # <<>>
    THEN WriteFile(fs, FileName("interrupted", 0, 0, cur), DropDuplicates(res))
    ELSE fs

\* SaveComplete with a slip: the rows are written without drop_duplicates.
SaveComplete_NoDedup(fs, res) ==
    IF res # <<>>
    THEN WriteFile(fs, FileName("COMPLETE", 0, 0, 0), res)
    ELSE fs

\* Lines 238-243: the final combined file.
SaveComplete(fs, res) ==
    IF res # <<>>
    THEN WriteFile(fs, FileName("COMPLETE", 0, 0, 0), DropDuplicates(res))
    ELSE fs

\* webdriver.Chrome(...): a new open session; opts names the option list used.
\* born is the page the loop stood at; loads counts the pages of the range the
\* session was used to scrape.
NewSession(opts, born) == [open |-> TRUE, opts |-> opts, born |-> born, loads |-> 0]

\* driver.quit()
Quit(ss, d) == [ss EXCEPT ![d].open = FALSE]

(***************************************************************************)
(* Link Collector: main.                                                   *)
(***************************************************************************)
InitCollector ==
    /\ prog = "collector"
    /\ cpc = "start" /\ page = 0 /\ current_page = 1
    /\ all_results = <<>> /\ batch_results = <<>> /\ batch_num = 1
    /\ js_enabled = FALSE /\ driver = 0 /\ newdrv = 0
    /\ sessions = <<>> /\ files = {} /\ hits = 0 /\ exitkind = "running"
    /\ batch_pages = <<>> /\ scraped_pages = <<>> /\ last_scrape = "none" /\ returned = {}
    /\ probed = {}
    /\ listing = [outcome |-> "no_container", sel1 |-> <<>>, sel2 |-> <<>>]
    /\ page_links = <<>>
    /\ ExtractorIdle

\* Lines 159-170: the handler is installed and the try block entered.
StartMain ==
    /\ prog = "collector" /\ cpc = "start"
    /\ cpc' = "for"
    /\ UNCHANGED <<prog, evars, svars, gvars, page, current_page, all_results, batch_results, batch_num,
                   js_enabled, driver, newdrv, sessions, files, hits, exitkind>>

\* NextPage with a slip: a session is started on the first run only.
NextPage_NoRestart ==
    /\ prog = "collector" /\ cpc = "for"
    /\ page < LastPage
    /\ page' = page + 1
    /\ current_page' = page + 1
    /\ cpc' = IF page % RestartEvery = 0 /\ driver = 0 THEN "setup" ELSE "scrape"
    /\ UNCHANGED <<prog, evars, svars, gvars, all_results, batch_results, batch_num, js_enabled, driver,
                   newdrv, sessions, files, hits, exitkind>>

\* Lines 173-177: the next page of range(1, LastPage + 1).
NextPage ==
    /\ prog = "collector" /\ cpc = "for"
    /\ page < LastPage
    /\ page' = page + 1
    /\ current_page' = page + 1
    /\ cpc' = IF page % RestartEvery = 0
              THEN (IF driver # 0 THEN "restart" ELSE "setup")
              ELSE "scrape"
    /\ UNCHANGED <<prog, evars, svars, gvars, all_results, batch_results, batch_num, js_enabled, driver,
                   newdrv, sessions, files, hits, exitkind>>

\* RestartQuit with a slip: the old session is left running at a restart.
RestartQuit_KeepsOld ==
    /\ prog = "collector" /\ cpc = "restart"
    /\ cpc' = "setup"
    /\ UNCHANGED <<prog, evars, svars, gvars, page, current_page, all_results, batch_results, batch_num,
                   js_enabled, driver, newdrv, sessions, files, hits, exitkind>>

\* Lines 178-181: the old session is quit before a restart.
RestartQuit ==
    /\ prog = "collector" /\ cpc = "restart"
    /\ sessions' = Quit(sessions, driver)
    /\ cpc' = "setup"
    /\ UNCHANGED <<prog, evars, svars, gvars, page, current_page, all_results, batch_results, batch_num,
                   js_enabled, driver, newdrv, files, hits, exitkind>>

\* setup_driver, lines 33-60: the browser is started.
SetupCreate ==
    /\ prog = "collector" /\ cpc = "setup"
    /\ sessions' = Append(sessions, NewSession("setup_driver", page))
    /\ newdrv' = Len(sessions) + 1
    /\ cpc' = "setup_cfg"
    /\ UNCHANGED <<prog, evars, svars, gvars, page, current_page, all_results, batch_results, batch_num,
                   js_enabled, driver, files, hits, exitkind>>

\* setup_driver, lines 62-66, and the assignment of line 184; line 187.
SetupConfigure ==
    /\ prog = "collector" /\ cpc = "setup_cfg"
    /\ driver' = newdrv
    /\ newdrv' = 0
    /\ cpc' = IF batch_num = 1 /\ ~js_enabled THEN "probe" ELSE "scrape"
    /\ UNCHANGED <<prog, evars, svars, gvars, page, current_page, all_results, batch_results, batch_num,
                   js_enabled, sessions, files, hits, exitkind>>

\* ProbePage with a slip: the probe's links are kept with the collected URLs.
ProbePage_KeepsLinks ==
    /\ prog = "collector" /\ cpc = "probe"
    /\ \E load \in RunLoads :
           LET test_results == scrape_page_with_fallback(load)
           IN /\ probed' = Range(test_results)
              /\ all_results' = all_results \o test_results
              /\ cpc' = IF test_results = <<>> THEN "probe_quit" ELSE "scrape"
    /\ UNCHANGED <<prog, evars, svars, batch_pages, scraped_pages, last_scrape, returned,
                   page, current_page, batch_results, batch_num,
                   js_enabled, driver, newdrv, sessions, files, hits, exitkind>>

\* Lines 188-191: the probe scrape of page 1 with the first session.
ProbePage ==
    /\ prog = "collector" /\ cpc = "probe"
    /\ \E load \in RunLoads :
           LET test_results == scrape_page_with_fallback(load)
           IN /\ probed' = Range(test_results)
              /\ cpc' = IF test_results = <<>> THEN "probe_quit" ELSE "scrape"
    /\ UNCHANGED <<prog, evars, svars, batch_pages, scraped_pages, last_scrape, returned,
                   page, current_page, all_results, batch_results, batch_num,
                   js_enabled, driver, newdrv, sessions, files, hits, exitkind>>

\* Line 193: the probing session is quit.
ProbeQuit ==
    /\ prog = "collector" /\ cpc = "probe_quit"
    /\ sessions' = Quit(sessions, driver)
    /\ cpc' = "js_create"
    /\ UNCHANGED <<prog, evars, svars, gvars, page, current_page, all_results, batch_results, batch_num,
                   js_enabled, driver, newdrv, files, hits, exitkind>>

\* Lines 196-207: the replacement session, assigned to driver at once.
JsCreate ==
    /\ prog = "collector" /\ cpc = "js_create"
    /\ sessions' = Append(sessions, NewSession("js_retry", page))
    /\ driver' = Len(sessions) + 1
    /\ cpc' = "js_cfg"
    /\ UNCHANGED <<prog, evars, svars, gvars, page, current_page, all_results, batch_results, batch_num,
                   js_enabled, newdrv, files, hits, exitkind>>

\* Lines 208-210.
JsConfigure ==
    /\ prog = "collector" /\ cpc = "js_cfg"
    /\ js_enabled' = TRUE
    /\ cpc' = "scrape"
    /\ UNCHANGED <<prog, evars, svars, gvars, page, current_page, all_results, batch_results, batch_num,
                   driver, newdrv, sessions, files, hits, exitkind>>

\* ScrapePage with a slip: the exception of a failed load is not caught in
\* scrape_page_with_fallback and reaches main's handler.
ScrapePage_FailureAborts ==
    /\ prog = "collector" /\ cpc = "scrape"
    /\ \E load \in RunLoads :
           LET page_results == scrape_page_with_fallback(load)
           IN /\ page_results # <<>> => hits < MaxHits
              /\ hits' = IF page_results # <<>> THEN hits + 1 ELSE hits
              /\ batch_results' = batch_results \o page_results
              /\ all_results' = all_results \o page_results
              /\ returned' = returned \cup Range(page_results)
              /\ last_scrape' = IF load.outcome = "loaded" THEN "loaded" ELSE "failed"
              /\ cpc' = IF load.outcome = "loaded" THEN "batch" ELSE "except"
    /\ sessions' = [sessions EXCEPT ![driver].loads = @ + 1]
    /\ batch_pages' = Append(batch_pages, page)
    /\ scraped_pages' = Append(scraped_pages, page)
    /\ UNCHANGED <<prog, evars, svars, probed, page, current_page, batch_num, js_enabled,
                   driver, newdrv, files, exitkind>>

\* Lines 212-216: the page is scraped and its links accumulated.
ScrapePage ==
    /\ prog = "collector" /\ cpc = "scrape"
    /\ \E load \in RunLoads :
           LET page_results == scrape_page_with_fallback(load)
           IN /\ page_results # <<>> => hits < MaxHits
              /\ hits' = IF page_results # <<>> THEN hits + 1 ELSE hits
              /\ batch_results' = batch_results \o page_results
              /\ all_results' = all_results \o page_results
              /\ returned' = returned \cup Range(page_results)
              /\ last_scrape' = IF load.outcome = "loaded" THEN "loaded" ELSE "failed"
    /\ sessions' = [sessions EXCEPT ![driver].loads = @ + 1]
    /\ batch_pages' = Append(batch_pages, page)
    /\ scraped_pages' = Append(scraped_pages, page)
    /\ cpc' = "batch"
    /\ UNCHANGED <<prog, evars, svars, probed, page, current_page, batch_num, js_enabled,
                   driver, newdrv, files, exitkind>>

\* Lines 218-229: the batch is saved every BatchSize pages; the delay.
SaveBatch ==
    /\ prog = "collector" /\ cpc = "batch"
    /\ IF page % BatchSize = 0
       THEN /\ files' = save_progress(files, batch_results, page, batch_num)
            /\ batch_results' = <<>>
            /\ batch_pages' = <<>>
            /\ batch_num' = batch_num + 1
       ELSE UNCHANGED <<files, batch_results, batch_pages, batch_num>>
    /\ last_scrape' = "none"
    /\ cpc' = "for"
    /\ UNCHANGED <<prog, evars, svars, scraped_pages, returned, probed, page, current_page,
                   all_results, js_enabled, driver, newdrv, sessions, hits, exitkind>>

\* Lines 231-245: after the loop, the last partial batch and the combined file.
FinishMain ==
    /\ prog = "collector" /\ cpc = "for"
    /\ page = LastPage
    /\ files' = SaveComplete(IF batch_results # <<>>
                             THEN save_progress(files, batch_results, current_page, batch_num)
                             ELSE files,
                             all_results)
    /\ exitkind' = "normal"
    /\ cpc' = "finally"
    /\ UNCHANGED <<prog, evars, svars, gvars, page, current_page, all_results, batch_results, batch_num,
                   js_enabled, driver, newdrv, sessions, hits>>

\* A browser call of the loop raises outside the per-page guard: driver.quit()
\* (lines 180, 193), webdriver.Chrome (lines 60, 207) or the timeout settings
\* (lines 63-64, 208-209).  A session whose quit or configuration raised
\* stays open; setup_driver's local driver is lost with its frame.
BrowserRaises ==
    /\ prog = "collector"
    /\ cpc \in {"restart", "setup", "setup_cfg", "probe_quit", "js_create", "js_cfg"}
    /\ newdrv' = 0
    /\ cpc' = "except"
    /\ UNCHANGED <<prog, evars, svars, gvars, page, current_page, all_results, batch_results, batch_num,
                   js_enabled, driver, sessions, files, hits, exitkind>>

\* HandleFatal with a slip: the error is reported and nothing is saved.
HandleFatal_NoSave ==
    /\ prog = "collector" /\ cpc = "except"
    /\ exitkind' = "fatal"
    /\ cpc' = "finally"
    /\ UNCHANGED <<prog, evars, svars, gvars, page, current_page, all_results, batch_results, batch_num,
                   js_enabled, driver, newdrv, sessions, files, hits>>

\* Lines 247-251: the fatal-error handler.
HandleFatal ==
    /\ prog = "collector" /\ cpc = "except"
    /\ files' = IF all_results # <<>>
                THEN save_progress(files, all_results, current_page, 0)
                ELSE files
    /\ exitkind' = "fatal"
    /\ cpc' = "finally"
    /\ UNCHANGED <<prog, evars, svars, gvars, page, current_page, all_results, batch_results, batch_num,
                   js_enabled, driver, newdrv, sessions, hits>>

\* Lines 253-256: the guaranteed cleanup.
Cleanup ==
    /\ prog = "collector" /\ cpc = "finally"
    /\ sessions' = IF driver # 0 THEN Quit(sessions, driver) ELSE sessions
    /\ cpc' = "done"
    /\ UNCHANGED <<prog, evars, svars, gvars, page, current_page, all_results, batch_results, batch_num,
                   js_enabled, driver, newdrv, files, hits, exitkind>>

\* Lines 20-29: SIGINT while main runs.  The handler saves and raises
\* SystemExit where main stands: inside the try block the finally clause
\* runs next; inside the finally clause itself the clause is abandoned.
\* setup_driver's local driver is lost with its frame.
Sigint ==
    /\ prog = "collector"
    /\ cpc \notin {"start", "done"}
    /\ files' = signal_handler(files, all_results, current_page)
    /\ exitkind' = "sigint"
    /\ newdrv' = 0
    /\ cpc' = IF cpc = "finally" THEN "done" ELSE "finally"
    /\ UNCHANGED <<prog, evars, svars, gvars, page, current_page, all_results, batch_results, batch_num,
                   js_enabled, driver, sessions, hits>>

NextCollector ==
    \/ StartMain
    \/ NextPage
    \/ RestartQuit
    \/ SetupCreate
    \/ SetupConfigure
    \/ ProbePage
    \/ ProbeQuit
    \/ JsCreate
    \/ JsConfigure
    \/ ScrapePage
    \/ SaveBatch
    \/ FinishMain
    \/ BrowserRaises
    \/ HandleFatal
    \/ Cleanup
    \/ Sigint

SpecCollector == InitCollector /\ [][NextCollector]_vars

(***************************************************************************)
(* scrape_page_with_fallback called once, on any page load.                *)
(***************************************************************************)
InitScrape ==
    /\ prog = "scrape"
    /\ cpc = "call" /\ page = 0 /\ current_page = 1
    /\ all_results = <<>> /\ batch_results = <<>> /\ batch_num = 1
    /\ js_enabled = FALSE /\ driver = 0 /\ newdrv = 0
    /\ sessions = <<>> /\ files = {} /\ hits = 0 /\ exitkind = "running"
    /\ batch_pages = <<>> /\ scraped_pages = <<>> /\ last_scrape = "none" /\ returned = {}
    /\ probed = {}
    /\ listing \in ScrapeLoads
    /\ page_links = <<>>
    /\ ExtractorIdle

\* Lines 68-139: one call, from its entry to its return.
ScrapeOnce ==
    /\ prog = "scrape" /\ cpc = "call"
    /\ page_links' = scrape_page_with_fallback(listing)
    /\ cpc' = "returned"
    /\ UNCHANGED <<prog, evars, gvars, listing, page, current_page, all_results,
                   batch_results, batch_num, js_enabled, driver, newdrv, sessions, files,
                   hits, exitkind>>

NextScrape == ScrapeOnce

SpecScrape == InitScrape /\ [][NextScrape]_vars

(***************************************************************************)
(* The programs together: one of them runs.                                *)
(***************************************************************************)
Init == InitCsv \/ InitSingle \/ InitCollector \/ InitScrape

Next == NextCsv \/ NextSingle \/ NextCollector \/ NextScrape

Spec == Init /\ [][Next]_vars

(***************************************************************************)
(* Properties.                                                             *)
(***************************************************************************)
IsPrefix(a, b) == Len(a) <= Len(b) /\ \A k \in 1..Len(a) : a[k] = b[k]

\* C1: a run of process_urls_from_csv that is not interrupted returns with
\* exactly one record per input URL, in input order, whichever fetches fail:
\* len(results) = len(urls) and record k carries URL k.
C1_OneRecordPerUrl ==
    (prog = "csv" /\ epc = "returned" /\ ret = "frame") =>
        /\ Len(results) = Len(urls)
        /\ \A k \in 1..Len(urls) : results[k].url = urls[k]

\* C1 witness: a completed run over more than SaveEvery URLs with failed and
\* successful fetches.
C1_Witness ==
    /\ prog = "csv" /\ epc = "returned" /\ ret = "frame"
    /\ Len(urls) > SaveEvery
    /\ \E k, j \in 1..Len(results) :
           results[k].status = "error" /\ results[j].status = "success"

\* C2: after an interruption when k of n URLs have been processed, the output
\* file holds exactly k records, each with all the columns.
C2_InterruptedFileComplete ==
    (prog = "csv" /\ epc = "interrupted") =>
        /\ outfile.header = ColumnOrder
        /\ Len(outfile.rows) = i
        /\ outfile.rows = ToRows(results)

\* Items of the Extractor held only in memory: records not in the output file.
ExtractorUnsaved == Len(results) - Len(outfile.rows)

\* Pages of the Collector scraped since the last periodic flush.
CollectorUnsavedPages == page - (batch_num - 1) * BatchSize

\* The URLs accumulated before the current batch are in batch checkpoint files,
\* and the current batch is the rest of all_results.
CollectorFlushed ==
    LET done == Len(all_results) - Len(batch_results)
    IN /\ done >= 0
       /\ batch_results = SubSeq(all_results, done + 1, Len(all_results))
       /\ \A k \in 1..done :
              \E f \in files : f.name.kind = "batch" /\ all_results[k] \in Range(f.rows)

NoDuplicates(rows) == \A a, b \in 1..Len(rows) : rows[a] = rows[b] => a = b

FilesOfKind(kind) == {f \in files : f.name.kind = kind}

\* C4: the combined COMPLETE file never holds the same URL twice, and holds
\* every URL collected, also when a URL was returned by several pages or
\* several times by one page.
C4_CompleteDeduplicated ==
    \A f \in FilesOfKind("COMPLETE") :
        /\ NoDuplicates(f.rows)
        /\ Range(f.rows) = Range(all_results)

\* C4 witness: a COMPLETE file written when the same URL had been returned by
\* two different pages.
C4_Witness ==
    /\ cpc = "done" /\ exitkind = "normal"
    /\ hits = 2
    /\ \E f \in FilesOfKind("COMPLETE") : Len(f.rows) = 1 /\ Len(all_results) = 2

\* The interrupted checkpoint file of the current page holds the deduplicated
\* URLs collected so far.
InterruptedFileWritten ==
    \E f \in files :
        /\ f.name = FileName("interrupted", 0, 0, current_page)
        /\ f.rows = DropDuplicates(all_results)
        /\ NoDuplicates(f.rows)

\* A step that scrapes no page and accumulates nothing.
StaysStopped ==
    /\ exitkind' = exitkind
    /\ page' = page /\ current_page' = current_page
    /\ all_results' = all_results

\* A step of the exception path: no page is scraped, nothing is accumulated.
LoopAborted ==
    /\ page' = page
    /\ all_results' = all_results
    /\ cpc' \in {"finally", "done"}

\* C5 as claimed: after a SIGINT at any point, also before any link has been
\* collected, the interrupted file of the current page has been written.
C5_InterruptAlwaysWrites == exitkind = "sigint" => InterruptedFileWritten

\* C5 amended: after a SIGINT, if at least one URL has been collected the
\* interrupted file of the current page holds the deduplicated URLs collected so
\* far, and if none has been collected no interrupted file is written; in both
\* cases the run goes to its cleanup and scrapes no further page.
C5_InterruptFlush ==
    /\ [](exitkind = "sigint" =>
            /\ cpc \in {"finally", "done"}
            /\ IF all_results # <<>>
               THEN InterruptedFileWritten
               ELSE FilesOfKind("interrupted") = {})
    /\ [][exitkind = "sigint" => StaysStopped]_vars

\* C5 witness: a run interrupted after its first batch, whose interrupted file
\* is shorter than all_results because a URL had been collected twice.
C5_Witness ==
    /\ exitkind = "sigint" /\ cpc = "done"
    /\ page > BatchSize
    /\ \E f \in FilesOfKind("interrupted") :
           f.name.last = current_page /\ Len(f.rows) < Len(all_results)

\* C6: on every exit path of the Collector, every browser session that was
\* started has been quit when the run ends.
C6_NoLeakedSession ==
    cpc = "done" => \A d \in 1..Len(sessions) : ~sessions[d].open

\* C7: when an exception escapes the per-page guard in the main loop, the loop
\* is aborted (no later page is scraped, nothing more is accumulated) and once
\* the handler has run every URL accumulated so far is in the checkpoint file
\* written for the page the run stopped at.
C7_FatalFlush ==
    /\ [](exitkind = "fatal" =>
            /\ cpc \in {"finally", "done"}
            /\ all_results # <<>> =>
                  \E f \in FilesOfKind("final") :
                      /\ f.name.last = current_page
                      /\ Range(f.rows) = Range(all_results))
    /\ [][(cpc \in {"except", "finally", "done"}) => LoopAborted]_vars

\* C7 witness: a session restart that raised after the first batch, with URLs
\* accumulated before it.
C7_Witness ==
    /\ exitkind = "fatal" /\ cpc = "done"
    /\ page = BatchSize + 1
    /\ all_results # <<>>
    /\ FilesOfKind("final") # {}

\* The page the k-th processed URL answered with.
PageOf(k) == site[urls[k]]

\* C8: the record of a URL whose request failed is the all-error record (status
\* error, title, author and date the sentinel, content an error description,
\* url unchanged) and the loop goes on to the next URL; the record of every
\* other URL has status success.
C8_ErrorIffRequestFailed ==
    prog = "csv" =>
        /\ \A k \in 1..Len(results) :
              IF PageOf(k).fetch # "ok"
              THEN /\ results[k].status = "error"
                   /\ results[k].title = ErrorSentinel
                   /\ results[k].author = ErrorSentinel
                   /\ results[k].publication_date = ErrorSentinel
                   /\ results[k].full_content[1] = "Error extracting content: "
                   /\ results[k].url = urls[k]
              ELSE results[k].status = "success"
        /\ (epc = "returned" /\ ret = "frame") => Len(results) = Len(urls)

\* The record of the single-URL run and the page it was extracted from.
SingleRecord == results[1]
SinglePage == site[1]

\* C9: for a page that was fetched, the absence of a region (no h1 and no
\* title element, no author container, no date label, no article body) leaves
\* the record at status success, the other fields extracted and the missing
\* field at its fallback.
C9_IndependentDegradation ==
    (prog = "single" /\ epc = "returned" /\ SinglePage.fetch = "ok") =>
        /\ SingleRecord.status = "success"
        /\ SinglePage.h1.has => SingleRecord.title = Strip(SinglePage.h1.text)
        /\ ~SinglePage.authorBox.has => SingleRecord.author = UnknownAuthor
        /\ SinglePage.authorBox.has => SingleRecord.author # UnknownAuthor
        /\ SingleRecord.publication_date =
               (IF SinglePage.date.has THEN Strip(SinglePage.date.text) ELSE UnknownDate)
        /\ ~SinglePage.body.has => SingleRecord.full_content = NoContent

\* C10: the author field of the record of a fetched page is the text of the
\* author link when the container holds one, the container's text when the
\* container has no author link, and "Unknown Author" only when the container
\* is absent.
C10_AuthorFallback ==
    (prog = "single" /\ epc = "returned" /\ SinglePage.fetch = "ok") =>
        /\ (SinglePage.authorBox.has /\ SinglePage.authorBox.hasLink) =>
               SingleRecord.author = Strip(SinglePage.authorBox.linkText)
        /\ (SinglePage.authorBox.has /\ ~SinglePage.authorBox.hasLink) =>
               SingleRecord.author = Strip(SinglePage.authorBox.text)
        /\ (SingleRecord.author = UnknownAuthor) => ~SinglePage.authorBox.has

\* The anchors the two selectors matched on the page of the lone call.
Matched == listing.sel1 \o listing.sel2

Scraped == prog = "scrape" /\ cpc = "returned" /\ listing.outcome = "loaded"

\* An anchor with a non-empty href whose stripped text is longer than the
\* threshold.
Qualifies(a) == a.hasHref /\ a.href # <<>> /\ Len(Strip(a.text)) > MinTextLen

\* The link is the anchor's href, as it is or behind the origin.
LinkFrom(link, a) == link = a.href \/ link = <<Origin>> \o a.href

\* C11: a matched anchor is collected if and only if it has a non-empty href
\* and its stripped text is longer than MinTextLen characters: as many links
\* are returned as anchors qualify, each qualifying anchor has its link in the
\* list, and an anchor with text "Q1" or of exactly MinTextLen characters adds
\* none.
C11_LinkFiltering ==
    Scraped =>
        /\ Len(page_links) = Cardinality({k \in 1..Len(Matched) : Qualifies(Matched[k])})
        /\ \A k \in 1..Len(Matched) :
               Qualifies(Matched[k]) =>
                   \E j \in 1..Len(page_links) : LinkFrom(page_links[j], Matched[k])
        /\ \A j \in 1..Len(page_links) :
               \E k \in 1..Len(Matched) :
                   Qualifies(Matched[k]) /\ LinkFrom(page_links[j], Matched[k])
        /\ (\A k \in 1..Len(Matched) : Matched[k].text \in {TextQ1, TextTen, TextBlank})
               => page_links = <<>>

\* C11 witness: a page with a "Q1" anchor and a headline anchor, both with an
\* href: one link is returned.
C11_Witness ==
    /\ Scraped
    /\ listing.sel1 = <<Anchor(TRUE, HrefSlashA, TextQ1)>>
    /\ listing.sel2 = <<Anchor(TRUE, HrefRelB, TextHeadline)>>
    /\ page_links = <<HrefRelB>>

IsAbsolute(url) == url # <<>> /\ Head(url) = Origin

\* C12: every URL the Collector has collected from a page, and every URL in
\* every file it has written, is absolute: it begins with the origin.
C12_AbsoluteUrls ==
    prog = "collector" =>
        /\ \A k \in 1..Len(all_results) : IsAbsolute(all_results[k])
        /\ \A f \in files : \A k \in 1..Len(f.rows) : IsAbsolute(f.rows[k])

\* The processed count at the latest save the schedule calls for.
LastSaveAt(k, n) == IF k = n THEN k ELSE k - (k % SaveEvery)

\* Between two iterations the file holds the header and the records of the
\* latest scheduled save; at every moment its records are a prefix of the
\* records in memory.
CheckpointState ==
    (prog = "csv" /\ epc \in {"loop", "save", "interrupted"}) =>
        /\ outfile.exists
        /\ IsPrefix(outfile.rows, ToRows(results))
        /\ (epc = "loop" /\ i = 0) => outfile = HeaderOnly
        /\ epc = "loop" =>
               outfile = WriteCsv(SubSeq(results, 1, LastSaveAt(i, Len(urls))))

\* A step that changes the file is the header write or comes at a processed
\* count i with i mod 50 = 0 or i = n, and the save step at such a count
\* writes every record in memory.
CheckpointStep ==
    /\ outfile' # outfile =>
           \/ epc = "read"
           \/ epc = "save" /\ (i % SaveEvery = 0 \/ i = Len(urls))
    /\ (epc = "save" /\ epc' = "loop" /\ (i % SaveEvery = 0 \/ i = Len(urls))) =>
           outfile' = WriteCsv(results)

\* C13: the output file holds only the header before the first URL is
\* processed; it is rewritten exactly when the processed count i satisfies
\* i mod 50 = 0 or i = n; the file's records are always a prefix, in input
\* order, of the records in memory.
C13_CheckpointSchedule ==
    /\ []CheckpointState
    /\ [][(prog = "csv") => CheckpointStep]_vars

\* C13 witness: 51 of 52 URLs processed, the file holding the 50 records of
\* the save at i = 50.
C13_Witness ==
    /\ prog = "csv" /\ epc = "loop"
    /\ Len(urls) = 52 /\ i = 51 /\ Len(results) = 51
    /\ Len(outfile.rows) = 50

\* A batch file written by the step is named by the batch index and by the
\* first and last page scraped into the batch, and holds the deduplicated
\* URLs of those pages; the periodic flush leaves the batch empty.
BatchNamedByPages ==
    /\ \A f \in files' \ files :
           f.name.kind = "batch" =>
               /\ batch_pages # <<>>
               /\ f.name.batch = batch_num
               /\ f.name.first = batch_pages[1]
               /\ f.name.last = batch_pages[Len(batch_pages)]
               /\ f.rows = DropDuplicates(batch_results)
    /\ (cpc = "batch" /\ cpc' = "for" /\ page % BatchSize = 0) => batch_results' = <<>>

\* C14: every batch checkpoint file, the one of the final partial batch
\* included, is named with its batch index and the page range start-end whose
\* deduplicated URLs it holds, and the batch accumulator is empty right after
\* each periodic flush.
C14_BatchNaming == [][(prog = "collector") => BatchNamedByPages]_vars

\* C15: once the probe has switched the rendering mode, every browser session
\* created afterwards, the replacement session and the sessions of the
\* scheduled restarts, uses the switched mode: no session with the options of
\* setup_driver follows a session with the options of the retry.
C15_ModeEscalation ==
    prog = "collector" =>
        \A d1 \in 1..Len(sessions), d2 \in 1..Len(sessions) :
            (d1 < d2 /\ sessions[d1].opts = "js_retry") => sessions[d2].opts = "js_retry"

\* C16: the links returned for a page come only from the first selector of the
\* list that matches at least one element: when the first selector matches,
\* the links of the second are not returned.
C16_FirstSelectorOnly ==
    Scraped =>
        page_links = IF listing.sel1 # <<>> THEN LinksOf(listing.sel1)
                     ELSE LinksOf(listing.sel2)

\* The pages scraped so far are 1, 2, ... in ascending order, each once.
ScrapedInOrder == scraped_pages = [k \in 1..Len(scraped_pages) |-> k]

\* C17 as stated: a run that ends without a manual interrupt has scraped
\* every page 1..LastPage exactly once, in ascending order.
C17_AllPagesUnlessInterrupted ==
    (prog = "collector" /\ cpc = "done" /\ exitkind # "sigint") =>
        (ScrapedInOrder /\ Len(scraped_pages) = LastPage)

\* The scrape of a page that fails adds no link and hands over to the rest of
\* the iteration.
FailedPageGoesOn ==
    (cpc = "scrape" /\ last_scrape' = "failed") =>
        /\ all_results' = all_results
        /\ batch_results' = batch_results
        /\ cpc' = "batch"
        /\ exitkind' = exitkind

\* C17 amended: a page whose scrape fails contributes no link and does not
\* end the run; the pages are scraped in ascending order, each once; a run
\* that ends with neither a manual interrupt nor a fatal error outside the
\* per-page scrape has scraped every page 1..LastPage.
C17_PageFailuresDoNotAbort ==
    /\ [](prog = "collector" =>
            /\ ScrapedInOrder
            /\ (cpc = "batch" /\ last_scrape = "failed") => exitkind = "running"
            /\ (cpc = "done" /\ exitkind \notin {"sigint", "fatal"}) =>
                   Len(scraped_pages) = LastPage)
    /\ [][(prog = "collector") => FailedPageGoesOn]_vars

\* C17 witness: the last page of the range has just failed to load, after
\* every page before it was scraped and links were collected.
C17_Witness ==
    /\ prog = "collector" /\ cpc = "batch"
    /\ last_scrape = "failed"
    /\ page = LastPage /\ Len(scraped_pages) = LastPage
    /\ all_results # <<>>

\* C18: no browser session scrapes more than 50 pages of the range; sessions
\* are started before pages 1, 51, 101, ... only, and the page about to be
\* scraped is scraped by a session started before the first page of its block
\* of 50; every session but the latest has been quit.
C18_RestartCadence ==
    prog = "collector" =>
        /\ \A d \in 1..Len(sessions) :
               /\ sessions[d].loads <= 50
               /\ (sessions[d].born - 1) % 50 = 0
               /\ d < Len(sessions) => ~sessions[d].open
        /\ cpc = "scrape" =>
               /\ driver = Len(sessions)
               /\ sessions[driver].open
               /\ sessions[driver].born = page - ((page - 1) % 50)

\* C18 witness: page 51 is about to be scraped by a session started before
\* it, the session that scraped 50 pages having been quit.
C18_Witness ==
    /\ prog = "collector" /\ cpc = "scrape" /\ page = 51
    /\ sessions[driver].born = 51 /\ sessions[driver].loads = 0
    /\ \E d \in 1..Len(sessions) : sessions[d].loads = 50 /\ ~sessions[d].open

\* C19: an interruption of the processing loop, during a fetch, a checkpoint
\* write or the delay, makes process_urls_from_csv return a frame and raise
\* nothing; the frame holds one row per URL processed so far, row k being the
\* record of URL k: no appended record is lost or duplicated.
C19_InterruptReturnsPartial ==
    (prog = "csv" /\ epc = "interrupted") =>
        /\ ret = "frame"
        /\ Len(frame) = i
        /\ i <= Len(urls)
        /\ \A k \in 1..Len(frame) :
               /\ frame[k] = ToFrame(<<extract_article_info(urls[k], site[urls[k]])>>)[1]
               /\ frame[k][5] = urls[k]

\* C19 witness: the interruption falls in the checkpoint write after the 50th
\* URL of more; the file is torn and the 50 records are returned.
C19_Witness ==
    /\ prog = "csv" /\ epc = "interrupted" /\ ret = "frame"
    /\ i = 50 /\ Len(urls) > 50
    /\ outfile.header = <<>>
    /\ Len(frame) = 50

UrlsOf(fs) == UNION {Range(f.rows) : f \in fs}

\* C20: when the run completes the full page range, the URLs of the COMPLETE
\* file are the URLs of all the batch files together and are the URLs the
\* scrapes of pages 1..LastPage returned; what the probe alone returned is in
\* none of them.  With nothing collected neither kind of file exists.
C20_CheckpointCoverage ==
    (prog = "collector" /\ exitkind = "normal") =>
        /\ UrlsOf(FilesOfKind("COMPLETE")) = UrlsOf(FilesOfKind("batch"))
        /\ UrlsOf(FilesOfKind("COMPLETE")) = returned
        /\ returned # {} => Cardinality(FilesOfKind("COMPLETE")) = 1
        /\ Len(scraped_pages) = LastPage

\* C20 witness: a completed run with two batch files whose probe returned a
\* URL that no page of the range returned.
C20_Witness ==
    /\ prog = "collector" /\ exitkind = "normal" /\ cpc = "done"
    /\ Cardinality(FilesOfKind("batch")) = 2
    /\ Cardinality(FilesOfKind("COMPLETE")) = 1
    /\ probed \ returned # {}

OpenSessions == {d \in 1..Len(sessions) : sessions[d].open}

\* C21: at most one browser session is open in every state of the Collector,
\* and the session a page is about to be loaded with, for the probe or for a
\* page of the range, is one that has not been quit.
C21_SingleLiveSession ==
    prog = "collector" =>
        /\ Cardinality(OpenSessions) <= 1
        /\ cpc \in {"probe", "scrape"} =>
               /\ driver \in 1..Len(sessions)
               /\ sessions[driver].open

\* C21 witness: the third session of a run, after the probe's session and its
\* replacement were quit, is the only one open and about to load a page.
C21_Witness ==
    /\ prog = "collector" /\ cpc = "scrape"
    /\ Len(sessions) = 3 /\ driver = 3
    /\ OpenSessions = {3}
    /\ sessions[2].opts = "js_retry"

====
